---- MODULE Spec2Model ----
(***************************************************************************)
(* Model of the Gemini speech-to-speech WebSocket bridge (index.js and     *)
(* loadTools.js): one client connection, the upstream sessions it opens,   *)
(* the 24kHz -> 8kHz framing pipeline, tool calls and teardown.            *)
(***************************************************************************)
EXTENDS Integers, Sequences, FiniteSets, TLC

\* ---------------------------------------------------------------- bounds
MaxAudioParts == 3
MaxInterrupts == 1
MaxEvents == 2
MaxToolMsgs == 2
MaxSaveEvents == 2
MaxUplinkEvents == 2
MaxTranscriptEvents == 3
MaxSharedEvents == 3
MaxChainMsgs == 3

\* ------------------------------------------------------ program constants
FrameSamples == 160
FrameBytes == 320
BytesPerSample == 2
RateGemini == 24000
RateClient == 8000
RateUpstream == 16000
Int16Span == 65536

\* byte lengths of the upstream audio parts fed to the framing pipeline
ChunkBytes == {0, 3, 480, 960, 1200, 2000}

\* ------------------------------------------------------- pure functions

\* Int16Array.from(frame): each number is stored as a 16-bit signed integer
ToInt16(x) == ((x + (Int16Span \div 2)) % Int16Span) - (Int16Span \div 2)

\* new Int16Array(buffer.buffer, byteOffset, length / 2): the whole samples
\* of the buffer, a trailing odd byte is not part of the view
Int16View(buf) == SubSeq(buf.samples, 1, buf.length \div BytesPerSample)

DownsamplerHalf(st, input) ==
  LET all == st \o input
      k == Len(all) \div 2
  IN  [out |-> [i \in 1..k |-> all[2 * i]],
       state |-> SubSeq(all, 2 * k + 1, Len(all))]

\* globalDownsampler.full(input): streaming 24000 -> 8000 conversion; st is
\* the converter's input history carried from the previous calls
DownsamplerFull(st, input) ==
  LET all == st \o input
      step == RateGemini \div RateClient
      n == Len(all) \div step
  IN  [out |-> [i \in 1..n |-> all[step * i]],
       state |-> SubSeq(all, step * n + 1, Len(all))]

\* the while loop of processGeminiAudioChunk: slice(0,160) / slice(160)
RECURSIVE ExtractFramesEager(_, _)
ExtractFramesEager(buf, frames) ==
  IF Len(buf) > 0
  THEN ExtractFramesEager(SubSeq(buf, FrameSamples + 1, Len(buf)),
                     Append(frames, [i \in 1..(IF Len(buf) < FrameSamples THEN Len(buf) ELSE FrameSamples) |-> ToInt16(buf[i])]))
  ELSE [frames |-> frames, rest |-> buf]

RECURSIVE ExtractFramesDrop(_, _)
ExtractFramesDrop(buf, frames) ==
  IF Len(buf) >= FrameSamples
  THEN ExtractFramesDrop(SubSeq(buf, FrameSamples + 2, Len(buf)),
                     Append(frames, [i \in 1..FrameSamples |-> ToInt16(buf[i])]))
  ELSE [frames |-> frames, rest |-> buf]

RECURSIVE ExtractFrames(_, _)
ExtractFrames(buf, frames) ==
  IF Len(buf) >= FrameSamples
  THEN ExtractFrames(SubSeq(buf, FrameSamples + 1, Len(buf)),
                     Append(frames, [i \in 1..FrameSamples |-> ToInt16(buf[i])]))
  ELSE [frames |-> frames, rest |-> buf]

ProcessChunkNoCarry(acc, st, buf) ==
  LET ds == DownsamplerFull(st, Int16View(buf))
      ex == ExtractFrames(ds.out, <<>>)
  IN  [frames |-> ex.frames, acc |-> ex.rest, state |-> ds.state, converted |-> ds.out]

ProcessChunkKeepsShort(acc, st, buf) ==
  LET ds == DownsamplerFull(st, Int16View(buf))
      ex == ExtractFrames(acc \o ds.out, <<>>)
  IN  IF Len(ds.out) < FrameSamples
      THEN [frames |-> <<>>, acc |-> acc \o ds.out, state |-> ds.state,
            converted |-> ds.out]
      ELSE [frames |-> ex.frames, acc |-> ex.rest, state |-> ds.state,
            converted |-> ds.out]

\* processGeminiAudioChunk(inputBuffer) on accumulator acc and converter
\* state st: the frames returned, the new accumulator, the new converter state
ProcessGeminiAudioChunk(acc, st, buf) ==
  LET ds == DownsamplerFull(st, Int16View(buf))
      ex == ExtractFrames(acc \o ds.out, <<>>)
  IN  [frames |-> ex.frames, acc |-> ex.rest, state |-> ds.state, converted |-> ds.out]

\* Buffer.from(Int16Array.from(frame).buffer).length
FrameByteLength(frame) == BytesPerSample * Len(frame)

RECURSIVE Flatten(_)
Flatten(ss) == IF ss = <<>> THEN <<>> ELSE Head(ss) \o Flatten(Tail(ss))

\* ------------------------------------------------------------------ state
VARIABLES
  sessionUuid,      \* let sessionUuid: "null" or the uuid of the last init
  session,          \* let session: 0 (null) or the id of the upstream session
  audioBuffer8k,    \* let audioBuffer8k: the accumulator of converted samples
  audioFrames,      \* let audioFrames: the frames of the last audio part
  downsampler,      \* globalDownsampler: input history of the shared converter
  transcripts,      \* const transcripts: Map uuid -> entries
  audioFileHandles, \* const audioFileHandles: Map <<uuid, type>> -> handle
  fileHandles,      \* the FileHandle objects fs.open returned, by handle id
  transcriptFiles,  \* fs.writeFile calls on logs/transcript-<uuid>.txt, by uuid
  saveAudioChunks,  \* process.env.SAVE_AUDIO_CHUNKS === 'true'
  clientWs,         \* readyState of the client socket
  clientOut,        \* the messages the client socket accepted, in order
  clientEvents,     \* how many 'error' / 'close' events the client socket emitted
  upstream,         \* the upstream sessions ai.live.connect returned, by id
  connecting,       \* connectToGeminiSdk calls that have not settled yet
  toolTasks,        \* onmessage invocations suspended at await handler(...)
  toolLog,          \* per tool-call message: its calls and what became of it
  cleanups,         \* cleanup() invocations suspended at an await
  saves,            \* saveAudioChunk invocations suspended at an await
  rejections,       \* promises of async handlers that rejected
  inputPos,         \* upstream audio samples received so far
  cutPos,           \* inputPos when the last interruption was handled
  converted,        \* every converted sample so far, in arrival order
  lastParts,        \* the last two audio parts: state before, size, frames, and
                    \* how many onmessage invocations were suspended meanwhile
  n,                \* how often each bounded event has happened
  peer              \* a second client connection: the variables of its closure

vars == <<sessionUuid, session, audioBuffer8k, audioFrames, downsampler, transcripts,
          audioFileHandles, fileHandles, transcriptFiles, saveAudioChunks, clientWs,
          clientOut, clientEvents, upstream, connecting, toolTasks, toolLog, cleanups,
          saves, rejections, inputPos, cutPos, converted, lastParts, n, peer>>

\* ------------------------------------------------------------- messages
Uuids == {"abc"}
ToolFiles == {"get_transcript", "avr_hangup"}
NoData == [length |-> -1, samples |-> <<>>]

\* one part of a model turn; inlineData is the decoded base64 payload, whose
\* samples are numbered by their position in the upstream audio stream
AudioPart(bytes, pos) ==
  [inlineData |-> [length |-> bytes,
                   samples |-> [i \in 1..(bytes \div BytesPerSample) |-> pos + i]],
   text |-> ""]
TextPart(t) == [inlineData |-> NoData, text |-> t]

RECURSIVE AudioParts(_, _)
AudioParts(bs, pos) ==
  IF bs = <<>> THEN <<>>
  ELSE <<AudioPart(Head(bs), pos)>>
       \o AudioParts(Tail(bs), pos + (Head(bs) \div BytesPerSample))

EmptyMsg ==
  [setupComplete |-> FALSE, text |-> "", modelTurn |-> FALSE, parts |-> <<>>,
   toolCall |-> FALSE, functionCalls |-> <<>>, interrupted |-> FALSE]
SetupMsg == [EmptyMsg EXCEPT !.setupComplete = TRUE]
AsrMsg(t) == [EmptyMsg EXCEPT !.text = t]
TurnMsg(ps) == [EmptyMsg EXCEPT !.modelTurn = TRUE, !.parts = ps]
ToolMsg(calls) == [EmptyMsg EXCEPT !.toolCall = TRUE, !.functionCalls = calls]
InterruptedMsg == [EmptyMsg EXCEPT !.interrupted = TRUE]

RECURSIVE SamplesIn(_)
SamplesIn(ps) ==
  IF ps = <<>> THEN 0
  ELSE (IF Head(ps).inlineData = NoData THEN 0 ELSE Len(Head(ps).inlineData.samples))
       + SamplesIn(Tail(ps))

\* ------------------------------------------------------ client socket
\* clientWs.send(JSON.stringify(msg)): accepted while the socket is OPEN
ClientSend(ws, out, msg) == IF ws = "OPEN" THEN Append(out, msg) ELSE out

SendFramesReversed(ws, out, frames) ==
  IF ws = "OPEN"
  THEN [i \in 1..Len(frames) |-> [type |-> "audio", audio |-> frames[i]]] \o out
  ELSE out

SendFramesAnyState(ws, out, frames) ==
  out \o [i \in 1..Len(frames) |-> [type |-> "audio", audio |-> frames[i]]]

\* audioFrames.forEach(frame => clientWs.send({type: "audio", audio: base64(frame)}))
SendFrames(ws, out, frames) ==
  IF ws = "OPEN"
  THEN out \o [i \in 1..Len(frames) |-> [type |-> "audio", audio |-> frames[i]]]
  ELSE out

\* clientWs.close()
ClientWsClose(ws) == IF ws = "OPEN" THEN "CLOSING" ELSE ws

\* transcripts.get(uuid).push({speaker, text, timestamp}) behind transcripts.has(uuid)
PushTranscript(tr, uuid, speaker, text) ==
  IF uuid \in DOMAIN tr
  THEN [tr EXCEPT ![uuid] = Append(@, [speaker |-> speaker, text |-> text])]
  ELSE tr

\* saveAudioChunk(type, uuid, chunk) up to its first await (fs.mkdir), started
\* only when SAVE_AUDIO_CHUNKS is 'true'
StartSave(sv, type, uuid) ==
  IF saveAudioChunks THEN Append(sv, [type |-> type, uuid |-> uuid, pc |-> "mkdir", handle |-> 0])
  ELSE sv

\* ------------------------------------------------- onmessage: model turn
KeepLast2(q) == IF Len(q) > 2 THEN Tail(q) ELSE q

\* the body of the for loop over parts (lines 304-343) for one part
HandlePart(st, part, uuid, ws) ==
  LET r == ProcessGeminiAudioChunk(st.acc, st.ds, part.inlineData)
      a == IF part.inlineData = NoData THEN st
           ELSE [st EXCEPT !.saves = StartSave(@, "ai", uuid),
                           !.acc = r.acc, !.ds = r.state, !.frames = r.frames,
                           !.out = SendFrames(ws, @, r.frames),
                           !.conv = @ \o r.converted,
                           !.log = KeepLast2(Append(@, [acc |-> st.acc, state |-> st.ds,
                                                         bytes |-> part.inlineData.length,
                                                         first |-> IF part.inlineData.samples = <<>> THEN 0
                                                                   ELSE part.inlineData.samples[1],
                                                         frames |-> r.frames,
                                                         pending |-> Cardinality(toolTasks)]))]
  IN  IF part.text = "" THEN a
      ELSE [a EXCEPT !.tr = PushTranscript(@, uuid, "AI", part.text)]

RECURSIVE HandleParts(_, _, _, _)
HandleParts(st, ps, uuid, ws) ==
  IF ps = <<>> THEN st
  ELSE HandleParts(HandlePart(st, Head(ps), uuid, ws), Tail(ps), uuid, ws)

\* ------------------------------------------------- onmessage: tool calls
\* getToolHandler(name): throws when no file <name>.js exists in avr_tools or
\* tools, else returns the wrapper around tool.handler
GetToolHandler(name) ==
  IF name \in ToolFiles THEN [throws |-> FALSE, handler |-> name]
  ELSE [throws |-> TRUE, handler |-> "none"]

Fallback == "I'm sorry, I cannot retrieve the requested information."

ToolResponse(fc, result) == [id |-> fc.id, name |-> fc.name, result |-> result]

\* the for loop over functionCalls (lines 350-367) from call i on, up to the
\* next await, a throw, or the end of the loop
RECURSIVE ToolLoop(_, _, _)
ToolLoop(calls, i, responses) ==
  IF i > Len(calls) THEN [pc |-> "send", i |-> i, responses |-> responses]
  ELSE LET h == GetToolHandler(calls[i].name)
       IN  IF h.throws THEN [pc |-> "throw", i |-> i, responses |-> responses]
           ELSE IF h.handler = "none"
           THEN ToolLoop(calls, i + 1, Append(responses, ToolResponse(calls[i], Fallback)))
           ELSE [pc |-> "await", i |-> i, responses |-> responses]

\* session.sendRealtimeInput / session.sendToolResponse on upstream session s
UpstreamSend(up, s, item) ==
  IF s \in DOMAIN up
  THEN [up EXCEPT ![s].sent = Append(@, [item EXCEPT !.late = up[s].state # "open"])]
  ELSE up

\* where the tool loop stands after running from call i: the suspended task,
\* the batch sent upstream, the rejection, and the log entry k of the message
ToolStep(tasks, log, calls, i, responses, k) ==
  LET r == ToolLoop(calls, i, responses)
  IN  /\ toolTasks' = IF r.pc = "await"
                      THEN tasks \cup {[msg |-> k, calls |-> calls, i |-> r.i,
                                        responses |-> r.responses]}
                      ELSE tasks
      /\ upstream' = IF r.pc = "send"
                     THEN UpstreamSend(upstream, session,
                                       [kind |-> "toolResponse", late |-> FALSE,
                                        functionResponses |-> r.responses])
                     ELSE upstream
      /\ rejections' = IF r.pc = "throw" THEN rejections + 1 ELSE rejections
      /\ toolLog' = [log EXCEPT ![k].outcome =
                        CASE r.pc = "await" -> "running"
                          [] r.pc = "send" -> "sent"
                          [] OTHER -> "rejected",
                      ![k].batches = IF r.pc = "send" THEN Append(@, r.responses) ELSE @]

\* ------------------------------------------------------------ onmessage
\* callbacks.onmessage(m) of upstream session s, up to its first await
OnMessage(s, m) ==
  /\ UNCHANGED peer
  /\ s \in DOMAIN upstream
  /\ upstream[s].state # "closed"
  /\ UNCHANGED <<sessionUuid, session, audioFileHandles, fileHandles, transcriptFiles,
                 saveAudioChunks, clientWs, clientEvents, connecting, cleanups>>
  /\ LET tr1 == IF m.text # "" /\ ~m.setupComplete
                THEN PushTranscript(transcripts, sessionUuid, "User", m.text)
                ELSE transcripts
         st == HandleParts([acc |-> audioBuffer8k, ds |-> downsampler,
                            frames |-> audioFrames, out |-> clientOut, tr |-> tr1,
                            saves |-> saves, conv |-> converted, log |-> lastParts],
                           m.parts, sessionUuid, clientWs)
     IN  CASE m.setupComplete ->
                UNCHANGED <<audioBuffer8k, audioFrames, downsampler, transcripts,
                            clientOut, upstream, toolTasks, toolLog, saves, rejections,
                            inputPos, cutPos, converted, lastParts>>
           [] ~m.setupComplete /\ m.modelTurn ->
                /\ audioBuffer8k' = st.acc
                /\ downsampler' = st.ds
                /\ audioFrames' = st.frames
                /\ clientOut' = st.out
                /\ transcripts' = st.tr
                /\ saves' = st.saves
                /\ converted' = st.conv
                /\ lastParts' = st.log
                /\ inputPos' = inputPos + SamplesIn(m.parts)
                /\ UNCHANGED <<upstream, toolTasks, toolLog, rejections, cutPos>>
           [] ~m.setupComplete /\ ~m.modelTurn /\ m.toolCall ->
                /\ ToolStep(toolTasks, Append(toolLog, [calls |-> m.functionCalls,
                                             outcome |-> "running", batches |-> <<>>,
                                             threw |-> {}]),
                            m.functionCalls, 1, <<>>, Len(toolLog) + 1)
                /\ transcripts' = tr1
                /\ UNCHANGED <<audioBuffer8k, audioFrames, downsampler, clientOut, saves,
                               inputPos, cutPos, converted, lastParts>>
           [] ~m.setupComplete /\ ~m.modelTurn /\ ~m.toolCall /\ m.interrupted ->
                /\ audioFrames' = <<>>
                /\ clientOut' = ClientSend(clientWs, clientOut, [type |-> "interruption"])
                /\ transcripts' = tr1
                /\ cutPos' = inputPos
                /\ lastParts' = <<>>
                /\ UNCHANGED <<audioBuffer8k, downsampler, upstream, toolTasks, toolLog,
                               saves, rejections, inputPos, converted>>
           [] OTHER ->
                /\ transcripts' = tr1
                /\ UNCHANGED <<audioBuffer8k, audioFrames, downsampler, clientOut,
                               upstream, toolTasks, toolLog, saves, rejections, inputPos,
                               cutPos, converted, lastParts>>

\* ------------------------------------------------- tool handler settles
\* await handler(sessionUuid, fc.args, {transcripts}) resolves with result:
\* the response is pushed and the loop goes on to the next call or to
\* session.sendToolResponse({functionResponses})
ToolReturns(t, result) ==
  /\ UNCHANGED peer
  /\ t \in toolTasks
  /\ ToolStep(toolTasks \ {t}, toolLog, t.calls, t.i + 1,
              Append(t.responses, ToolResponse(t.calls[t.i], result)), t.msg)
  /\ UNCHANGED <<sessionUuid, session, audioBuffer8k, audioFrames, downsampler,
                 transcripts, audioFileHandles, fileHandles, transcriptFiles,
                 saveAudioChunks, clientWs, clientOut, clientEvents, connecting, cleanups,
                 saves, inputPos, cutPos, converted, lastParts, n>>

\* await handler(...) rejects: nothing in onmessage catches it
ToolThrows(t) ==
  /\ UNCHANGED peer
  /\ t \in toolTasks
  /\ toolTasks' = toolTasks \ {t}
  /\ toolLog' = [toolLog EXCEPT ![t.msg].outcome = "rejected",
                                ![t.msg].threw = @ \cup {t.i}]
  /\ rejections' = rejections + 1
  /\ UNCHANGED <<sessionUuid, session, audioBuffer8k, audioFrames, downsampler,
                 transcripts, audioFileHandles, fileHandles, transcriptFiles,
                 saveAudioChunks, clientWs, clientOut, clientEvents, upstream, connecting,
                 cleanups, saves, inputPos, cutPos, converted, lastParts, n>>

\* ------------------------------------------------------ client messages
\* case "init": sessionUuid, transcripts.set(uuid, []), then
\* initializeGeminiConnection() up to its await of connectToGeminiSdk
ClientInit(u) ==
  /\ UNCHANGED peer
  /\ clientWs # "CLOSED"
  /\ sessionUuid' = u
  /\ transcripts' = [x \in DOMAIN transcripts \cup {u} |->
                       IF x = u THEN <<>> ELSE transcripts[x]]
  /\ connecting' = connecting + 1
  /\ UNCHANGED <<session, audioBuffer8k, audioFrames, downsampler, audioFileHandles,
                 fileHandles, transcriptFiles, saveAudioChunks, clientWs, clientOut,
                 clientEvents, upstream, toolTasks, toolLog, cleanups, saves, rejections,
                 inputPos, cutPos, converted, lastParts>>

\* convert8kTo16k(inputBuffer): globalUpsampler.full, 8000 -> 16000
Convert8kTo16k(buf) ==
  LET in == Int16View(buf)
      step == RateUpstream \div RateClient
  IN  [i \in 1..(step * Len(in)) |-> ToInt16(in[(i + step - 1) \div step])]

\* the audio payloads a client message may carry ("" is no payload)
ClientPayloads == {[length |-> 0, samples |-> <<>>], [length |-> 4, samples |-> <<5, -7>>]}

ClientAudioHoldsShort(buf) ==
  /\ UNCHANGED peer
  /\ clientWs # "CLOSED"
  /\ IF buf.length >= 2 * BytesPerSample /\ session # 0
     THEN /\ saves' = StartSave(saves, "user", sessionUuid)
          /\ upstream' = UpstreamSend(upstream, session,
                                      [kind |-> "audio", late |-> FALSE,
                                       data |-> Convert8kTo16k(buf)])
     ELSE UNCHANGED <<saves, upstream>>
  /\ UNCHANGED <<sessionUuid, session, audioBuffer8k, audioFrames, downsampler,
                 transcripts, audioFileHandles, fileHandles, transcriptFiles,
                 saveAudioChunks, clientWs, clientOut, clientEvents, connecting, toolTasks,
                 toolLog, cleanups, rejections, inputPos, cutPos, converted, lastParts>>

ClientAudioRejects(buf) ==
  /\ UNCHANGED peer
  /\ clientWs # "CLOSED"
  /\ IF buf.length > 0 /\ session # 0
     THEN /\ saves' = StartSave(saves, "user", sessionUuid)
          /\ upstream' = UpstreamSend(upstream, session,
                                      [kind |-> "audio", late |-> FALSE,
                                       data |-> Convert8kTo16k(buf)])
          /\ UNCHANGED clientOut
     ELSE /\ clientOut' = ClientSend(clientWs, clientOut,
                                     [type |-> "error", message |-> "no session"])
          /\ UNCHANGED <<saves, upstream>>
  /\ UNCHANGED <<sessionUuid, session, audioBuffer8k, audioFrames, downsampler,
                 transcripts, audioFileHandles, fileHandles, transcriptFiles,
                 saveAudioChunks, clientWs, clientEvents, connecting, toolTasks,
                 toolLog, cleanups, rejections, inputPos, cutPos, converted, lastParts>>

\* case "audio"
ClientAudio(buf) ==
  /\ UNCHANGED peer
  /\ clientWs # "CLOSED"
  /\ IF buf.length > 0 /\ session # 0
     THEN /\ saves' = StartSave(saves, "user", sessionUuid)
          /\ upstream' = UpstreamSend(upstream, session,
                                      [kind |-> "audio", late |-> FALSE,
                                       data |-> Convert8kTo16k(buf)])
     ELSE UNCHANGED <<saves, upstream>>
  /\ UNCHANGED <<sessionUuid, session, audioBuffer8k, audioFrames, downsampler,
                 transcripts, audioFileHandles, fileHandles, transcriptFiles,
                 saveAudioChunks, clientWs, clientOut, clientEvents, connecting, toolTasks,
                 toolLog, cleanups, rejections, inputPos, cutPos, converted, lastParts>>

ClientOtherCloses ==
  /\ UNCHANGED peer
  /\ clientWs # "CLOSED"
  /\ clientWs' = ClientWsClose(clientWs)
  /\ UNCHANGED <<sessionUuid, session, audioBuffer8k, audioFrames, downsampler,
                 transcripts, audioFileHandles, fileHandles, transcriptFiles,
                 saveAudioChunks, clientOut, clientEvents, upstream, connecting,
                 toolTasks, toolLog, cleanups, saves, rejections, inputPos, cutPos,
                 converted, lastParts>>

\* default: / catch (error): an unknown type or malformed JSON is only logged
ClientOther ==
  /\ UNCHANGED peer
  /\ clientWs # "CLOSED"
  /\ UNCHANGED <<sessionUuid, session, audioBuffer8k, audioFrames, downsampler,
                 transcripts, audioFileHandles, fileHandles, transcriptFiles,
                 saveAudioChunks, clientWs, clientOut, clientEvents, upstream, connecting,
                 toolTasks, toolLog, cleanups, saves, rejections, inputPos, cutPos,
                 converted, lastParts>>

\* ---------------------------------------------- initializeGeminiConnection
\* session.sendRealtimeInput({text: "Please start the conversation."})
Nudge == [kind |-> "text", late |-> FALSE, text |-> "Please start the conversation."]

ConnectSucceedsNoNudge ==
  /\ UNCHANGED peer
  /\ connecting > 0
  /\ connecting' = connecting - 1
  /\ session' = Len(upstream) + 1
  /\ upstream' = Append(upstream, [state |-> "open", closeCalls |-> 0,
                                   errors |-> 0, sent |-> <<>>])
  /\ UNCHANGED <<sessionUuid, audioBuffer8k, audioFrames, downsampler, transcripts,
                 audioFileHandles, fileHandles, transcriptFiles, saveAudioChunks,
                 clientWs, clientOut, clientEvents, toolTasks, toolLog, cleanups, saves,
                 rejections, inputPos, cutPos, converted, lastParts, n>>

\* connectToGeminiSdk resolved: session is assigned and the nudge is sent
ConnectSucceeds ==
  /\ UNCHANGED peer
  /\ connecting > 0
  /\ connecting' = connecting - 1
  /\ session' = Len(upstream) + 1
  /\ upstream' = UpstreamSend(Append(upstream, [state |-> "open", closeCalls |-> 0,
                                                errors |-> 0, sent |-> <<>>]),
                              Len(upstream) + 1, Nudge)
  /\ UNCHANGED <<sessionUuid, audioBuffer8k, audioFrames, downsampler, transcripts,
                 audioFileHandles, fileHandles, transcriptFiles, saveAudioChunks,
                 clientWs, clientOut, clientEvents, toolTasks, toolLog, cleanups, saves,
                 rejections, inputPos, cutPos, converted, lastParts, n>>

InitError == [type |-> "error", message |-> "Failed to initialize Gemini connection"]

\* connectToGeminiSdk rejected: the catch block sends one error to the client
ConnectFails ==
  /\ UNCHANGED peer
  /\ connecting > 0
  /\ connecting' = connecting - 1
  /\ clientOut' = ClientSend(clientWs, clientOut, InitError)
  /\ n' = [n EXCEPT !.openFailed = @ + 1]
  /\ UNCHANGED <<sessionUuid, session, audioBuffer8k, audioFrames, downsampler,
                 transcripts, audioFileHandles, fileHandles, transcriptFiles,
                 saveAudioChunks, clientWs, clientEvents, upstream, toolTasks, toolLog,
                 cleanups, saves, rejections, inputPos, cutPos, converted, lastParts>>

\* --------------------------------------------- upstream error and close
UpstreamErrorMsg == [type |-> "error", message |-> "upstream failure"]

\* callbacks.onerror(e)
OnError(s) ==
  /\ UNCHANGED peer
  /\ s \in DOMAIN upstream
  /\ upstream[s].state # "closed"
  /\ upstream[s].errors = 0
  /\ upstream' = [upstream EXCEPT ![s].errors = 1]
  /\ clientOut' = ClientSend(clientWs, clientOut, UpstreamErrorMsg)
  /\ UNCHANGED <<sessionUuid, session, audioBuffer8k, audioFrames, downsampler,
                 transcripts, audioFileHandles, fileHandles, transcriptFiles,
                 saveAudioChunks, clientWs, clientEvents, connecting, toolTasks, toolLog,
                 cleanups, saves, rejections, inputPos, cutPos, converted, lastParts, n>>

OnCloseKeepsClient(s) ==
  /\ UNCHANGED peer
  /\ s \in DOMAIN upstream
  /\ upstream[s].state # "closed"
  /\ upstream' = [upstream EXCEPT ![s].state = "closed"]
  /\ UNCHANGED <<sessionUuid, session, audioBuffer8k, audioFrames, downsampler,
                 transcripts, audioFileHandles, fileHandles, transcriptFiles,
                 saveAudioChunks, clientWs, clientOut, clientEvents, connecting, toolTasks,
                 toolLog, cleanups, saves, rejections, inputPos, cutPos, converted,
                 lastParts, n>>

\* callbacks.onclose(event): the upstream socket has closed
OnClose(s) ==
  /\ UNCHANGED peer
  /\ s \in DOMAIN upstream
  /\ upstream[s].state # "closed"
  /\ upstream' = [upstream EXCEPT ![s].state = "closed"]
  /\ clientWs' = ClientWsClose(clientWs)
  /\ UNCHANGED <<sessionUuid, session, audioBuffer8k, audioFrames, downsampler,
                 transcripts, audioFileHandles, fileHandles, transcriptFiles,
                 saveAudioChunks, clientOut, clientEvents, connecting, toolTasks, toolLog,
                 cleanups, saves, rejections, inputPos, cutPos, converted, lastParts, n>>

\* -------------------------------------------------------------- cleanup
RemoveAt(q, i) == SubSeq(q, 1, i - 1) \o SubSeq(q, i + 1, Len(q))
Without(f, k) == [x \in DOMAIN f \ {k} |-> f[x]]
With(f, k, v) == [x \in DOMAIN f \cup {k} |-> IF x = k THEN v ELSE f[x]]

\* session.close()
SessionClose(up, s) ==
  IF s \in DOMAIN up
  THEN [up EXCEPT ![s].closeCalls = @ + 1,
                  ![s].state = IF @ = "open" THEN "closing" ELSE @]
  ELSE up

\* fileHandle.close()
HandleClose(fh, h) == [fh EXCEPT ![h].closeCalls = @ + 1, ![h].open = FALSE]

\* lines 445-454: the transcript is formatted and fs.writeFile is called
CleanupTranscript(c, uuid) ==
  IF uuid # "null" /\ uuid \in DOMAIN c.tr
  THEN [c EXCEPT !.tf[uuid] = @ + 1,
                 !.task = <<[pc |-> "write", key |-> <<uuid, "log">>, handle |-> 0]>>]
  ELSE c

\* lines 438-443: the AI audio handle, if registered, is closed
CleanupAi(c, uuid) ==
  IF <<uuid, "ai">> \in DOMAIN c.afh
  THEN [c EXCEPT !.fh = HandleClose(@, c.afh[<<uuid, "ai">>]),
                 !.task = <<[pc |-> "ai", key |-> <<uuid, "ai">>,
                             handle |-> c.afh[<<uuid, "ai">>]]>>]
  ELSE CleanupTranscript(c, uuid)

\* lines 431-436: the user audio handle, if registered, is closed
CleanupUser(c, uuid) ==
  IF <<uuid, "user">> \in DOMAIN c.afh
  THEN [c EXCEPT !.fh = HandleClose(@, c.afh[<<uuid, "user">>]),
                 !.task = <<[pc |-> "user", key |-> <<uuid, "user">>,
                             handle |-> c.afh[<<uuid, "user">>]]>>]
  ELSE CleanupAi(c, uuid)

CleanupState ==
  [fh |-> fileHandles, afh |-> audioFileHandles, tr |-> transcripts,
   tf |-> transcriptFiles, task |-> <<>>]

\* cleanup() from its call up to its first await; ws is the readyState of
\* the client socket when the event handler runs
Cleanup(ws) ==
  LET c == CleanupUser(CleanupState, sessionUuid)
  IN  /\ upstream' = IF session # 0 THEN SessionClose(upstream, session) ELSE upstream
      /\ clientWs' = ClientWsClose(ws)
      /\ fileHandles' = c.fh
      /\ audioFileHandles' = c.afh
      /\ transcripts' = c.tr
      /\ transcriptFiles' = c.tf
      /\ cleanups' = cleanups \o c.task
      /\ n' = [n EXCEPT !.cleanupCalls = @ + 1]

\* clientWs.on("error"): the socket is already closing when the event fires
ClientErrorEvent ==
  /\ UNCHANGED peer
  /\ clientWs # "CLOSED"
  /\ clientEvents.error = 0
  /\ clientEvents' = [clientEvents EXCEPT !.error = 1]
  /\ Cleanup("CLOSING")
  /\ UNCHANGED <<sessionUuid, session, audioBuffer8k, audioFrames, downsampler,
                 saveAudioChunks, clientOut, connecting, toolTasks, toolLog, saves,
                 rejections, inputPos, cutPos, converted, lastParts>>

\* clientWs.on("close"): the client disconnected or the closing handshake ended
ClientCloseEvent ==
  /\ UNCHANGED peer
  /\ clientWs # "CLOSED"
  /\ clientEvents' = [clientEvents EXCEPT !.close = 1]
  /\ Cleanup("CLOSED")
  /\ UNCHANGED <<sessionUuid, session, audioBuffer8k, audioFrames, downsampler,
                 saveAudioChunks, clientOut, connecting, toolTasks, toolLog, saves,
                 rejections, inputPos, cutPos, converted, lastParts>>

\* an awaited fileHandle.close() of cleanup settles: on success the key is
\* deleted and cleanup goes on; a rejection ends cleanup there
CleanupAfterClose(i, ok) ==
  /\ UNCHANGED peer
  /\ i \in 1..Len(cleanups)
  /\ cleanups[i].pc \in {"user", "ai"}
  /\ LET t == cleanups[i]
         c0 == [CleanupState EXCEPT !.afh = Without(@, t.key)]
         c == IF t.pc = "user" THEN CleanupAi(c0, sessionUuid)
              ELSE CleanupTranscript(c0, sessionUuid)
     IN  IF ok
         THEN /\ fileHandles' = c.fh
              /\ audioFileHandles' = c.afh
              /\ transcripts' = c.tr
              /\ transcriptFiles' = c.tf
              /\ cleanups' = RemoveAt(cleanups, i) \o c.task
              /\ UNCHANGED rejections
         ELSE /\ cleanups' = RemoveAt(cleanups, i)
              /\ rejections' = rejections + 1
              /\ UNCHANGED <<fileHandles, audioFileHandles, transcripts, transcriptFiles>>
  /\ UNCHANGED <<sessionUuid, session, audioBuffer8k, audioFrames, downsampler,
                 saveAudioChunks, clientWs, clientOut, clientEvents, upstream, connecting,
                 toolTasks, toolLog, saves, inputPos, cutPos, converted, lastParts, n>>

CleanupAfterWriteKeeps(i) ==
  /\ UNCHANGED peer
  /\ i \in 1..Len(cleanups)
  /\ cleanups[i].pc = "write"
  /\ cleanups' = RemoveAt(cleanups, i)
  /\ UNCHANGED <<sessionUuid, session, audioBuffer8k, audioFrames, downsampler,
                 transcripts, audioFileHandles, fileHandles, transcriptFiles,
                 saveAudioChunks, clientWs, clientOut, clientEvents, upstream, connecting,
                 toolTasks, toolLog, saves, rejections, inputPos, cutPos, converted,
                 lastParts, n>>

\* the awaited fs.writeFile settles (a failure is caught and logged): finally
\* transcripts.delete(sessionUuid)
CleanupAfterWrite(i) ==
  /\ UNCHANGED peer
  /\ i \in 1..Len(cleanups)
  /\ cleanups[i].pc = "write"
  /\ transcripts' = Without(transcripts, sessionUuid)
  /\ cleanups' = RemoveAt(cleanups, i)
  /\ UNCHANGED <<sessionUuid, session, audioBuffer8k, audioFrames, downsampler,
                 audioFileHandles, fileHandles, transcriptFiles, saveAudioChunks,
                 clientWs, clientOut, clientEvents, upstream, connecting, toolTasks,
                 toolLog, saves, rejections, inputPos, cutPos, converted, lastParts, n>>

\* -------------------------------------------------------- saveAudioChunk
\* an awaited fs call of saveAudioChunk resolves: after mkdir the handle is
\* looked up (and opened when missing), after open it is registered, then the
\* chunk is written
SaveStep(i) ==
  /\ UNCHANGED peer
  /\ i \in 1..Len(saves)
  /\ LET t == saves[i]
         key == <<t.uuid, t.type>>
     IN  CASE t.pc = "mkdir" ->
                /\ saves' = [saves EXCEPT ![i] =
                               IF key \in DOMAIN audioFileHandles
                               THEN [t EXCEPT !.pc = "write", !.handle = audioFileHandles[key]]
                               ELSE [t EXCEPT !.pc = "open"]]
                /\ UNCHANGED <<audioFileHandles, fileHandles>>
           [] t.pc = "open" ->
                /\ fileHandles' = Append(fileHandles, [open |-> TRUE, closeCalls |-> 0,
                                                       key |-> key])
                /\ audioFileHandles' = With(audioFileHandles, key, Len(fileHandles) + 1)
                /\ saves' = [saves EXCEPT ![i] = [t EXCEPT !.pc = "write",
                                                         !.handle = Len(fileHandles) + 1]]
           [] OTHER ->
                /\ saves' = RemoveAt(saves, i)
                /\ UNCHANGED <<audioFileHandles, fileHandles>>
  /\ UNCHANGED <<sessionUuid, session, audioBuffer8k, audioFrames, downsampler,
                 transcripts, transcriptFiles, saveAudioChunks, clientWs, clientOut,
                 clientEvents, upstream, connecting, toolTasks, toolLog, cleanups,
                 rejections, inputPos, cutPos, converted, lastParts, n>>

\* an awaited fs call of saveAudioChunk rejects: .catch(console.error)
SaveFails(i) ==
  /\ UNCHANGED peer
  /\ i \in 1..Len(saves)
  /\ saves' = RemoveAt(saves, i)
  /\ UNCHANGED <<sessionUuid, session, audioBuffer8k, audioFrames, downsampler,
                 transcripts, audioFileHandles, fileHandles, transcriptFiles,
                 saveAudioChunks, clientWs, clientOut, clientEvents, upstream, connecting,
                 toolTasks, toolLog, cleanups, rejections, inputPos, cutPos, converted,
                 lastParts, n>>

\* ------------------------------------------- the framing pipeline alone
\* handleClientConnection(clientWs) of a second client: its sessionUuid,
\* session, audioBuffer8k, audioFrames, its socket and what the socket
\* accepted, its pending connect and cleanup, and the upstream audio samples
\* it has received
Peer0 ==
  [sessionUuid |-> "null", session |-> 0, audioBuffer8k |-> <<>>, audioFrames |-> <<>>,
   clientWs |-> "OPEN", clientOut |-> <<>>, connecting |-> 0, sent |-> <<>>,
   closeCalls |-> 0, cleanups |-> <<>>, inputPos |-> 0]

\* other: an unknown or malformed client message was handled; early: a client
\* audio payload arrived while no upstream session was assigned
Counters0 ==
  [parts |-> 0, interrupts |-> 0, events |-> 0, openFailed |-> 0, cleanupCalls |-> 0,
   other |-> 0, early |-> 0]

\* an ACTIVE session: init "abc" handled, upstream session 1 open and nudged
ActiveState(save) ==
  /\ sessionUuid = "abc"
  /\ session = 1
  /\ audioBuffer8k = <<>>
  /\ audioFrames = <<>>
  /\ downsampler = <<>>
  /\ transcripts = [u \in {"abc"} |-> <<>>]
  /\ audioFileHandles = <<>>
  /\ fileHandles = <<>>
  /\ transcriptFiles = [u \in Uuids |-> 0]
  /\ saveAudioChunks = save
  /\ clientWs = "OPEN"
  /\ clientOut = <<>>
  /\ clientEvents = [error |-> 0, close |-> 0]
  /\ upstream = <<[state |-> "open", closeCalls |-> 0, errors |-> 0, sent |-> <<Nudge>>]>>
  /\ connecting = 0
  /\ toolTasks = {}
  /\ toolLog = <<>>
  /\ cleanups = <<>>
  /\ saves = <<>>
  /\ rejections = 0
  /\ inputPos = 0
  /\ cutPos = 0
  /\ converted = <<>>
  /\ lastParts = <<>>
  /\ n = Counters0
  /\ peer = Peer0

InitAudio == ActiveState(FALSE)

\* the byte lengths of the audio parts of one model turn
TurnShapes == {<<b>> : b \in ChunkBytes} \cup {<<1200, 960>>, <<3, 2000>>}

AudioTurn ==
  \E bs \in TurnShapes :
    /\ n.parts + Len(bs) <= MaxAudioParts
    /\ OnMessage(session, TurnMsg(AudioParts(bs, inputPos)))
    /\ n' = [n EXCEPT !.parts = @ + Len(bs)]

Interruption ==
  /\ n.interrupts < MaxInterrupts
  /\ OnMessage(session, InterruptedMsg)
  /\ n' = [n EXCEPT !.interrupts = @ + 1]

NextAudio == AudioTurn \/ Interruption

SpecAudio == InitAudio /\ [][NextAudio]_vars

\* ------------------------------------------------- the whole connection
\* a new connection, audio saving off (SAVE_AUDIO_CHUNKS unset)
Init ==
  /\ sessionUuid = "null"
  /\ session = 0
  /\ audioBuffer8k = <<>>
  /\ audioFrames = <<>>
  /\ downsampler = <<>>
  /\ transcripts = <<>>
  /\ audioFileHandles = <<>>
  /\ fileHandles = <<>>
  /\ transcriptFiles = [u \in Uuids |-> 0]
  /\ saveAudioChunks = FALSE
  /\ clientWs = "OPEN"
  /\ clientOut = <<>>
  /\ clientEvents = [error |-> 0, close |-> 0]
  /\ upstream = <<>>
  /\ connecting = 0
  /\ toolTasks = {}
  /\ toolLog = <<>>
  /\ cleanups = <<>>
  /\ saves = <<>>
  /\ rejections = 0
  /\ inputPos = 0
  /\ cutPos = 0
  /\ converted = <<>>
  /\ lastParts = <<>>
  /\ n = Counters0
  /\ peer = Peer0

\* the upstream messages delivered to onmessage of a connection
UpMsgs ==
  {SetupMsg, AsrMsg("hi"), InterruptedMsg,
   TurnMsg(<<AudioPart(960, inputPos), TextPart("hello")>>)}

UpstreamMessage ==
  \E s \in DOMAIN upstream : \E m \in UpMsgs :
    /\ n.events < MaxEvents
    /\ OnMessage(s, m)
    /\ n' = [n EXCEPT !.events = @ + 1]

Counted == n' = [n EXCEPT !.events = @ + 1]

Next ==
  \/ \E u \in Uuids : n.events < MaxEvents /\ ClientInit(u) /\ Counted
  \/ \E buf \in ClientPayloads :
       /\ n.events < MaxEvents
       /\ ClientAudio(buf)
       /\ n' = [n EXCEPT !.events = @ + 1,
                         !.early = IF session = 0 /\ buf.length > 0 THEN 1 ELSE @]
  \/ n.events < MaxEvents /\ ClientOther /\ n' = [n EXCEPT !.events = @ + 1, !.other = 1]
  \/ ConnectSucceeds
  \/ ConnectFails
  \/ UpstreamMessage
  \/ \E s \in DOMAIN upstream : OnError(s)
  \/ \E s \in DOMAIN upstream : OnClose(s)
  \/ ClientErrorEvent
  \/ ClientCloseEvent
  \/ \E i \in 1..Len(cleanups) : CleanupAfterWrite(i)

Spec == Init /\ [][Next]_vars

\* the scheduling the runtime guarantees: a socket that reported an error is
\* closed by its transport, a closing client socket emits 'close' (handshake
\* or close timeout), and an awaited fs.writeFile settles
Fairness ==
  /\ WF_vars(\E s \in DOMAIN upstream : upstream[s].errors > 0 /\ OnClose(s))
  /\ WF_vars(clientWs = "CLOSING" /\ ClientCloseEvent)
  /\ WF_vars(\E i \in 1..Len(cleanups) : CleanupAfterWrite(i))

SpecLive == Spec /\ Fairness

\* ------------------------------------------ tool calls of an ACTIVE session
InitTools == ActiveState(FALSE)

Batches ==
  {<<[id |-> 1, name |-> "get_transcript"]>>,
   <<[id |-> 1, name |-> "no_such_tool"]>>,
   <<[id |-> 1, name |-> "get_transcript"], [id |-> 2, name |-> "avr_hangup"]>>,
   <<[id |-> 1, name |-> "avr_hangup"], [id |-> 2, name |-> "no_such_tool"]>>}

ToolCallMessage ==
  \E b \in Batches :
    /\ n.events < MaxToolMsgs
    /\ OnMessage(session, ToolMsg(b))
    /\ n' = [n EXCEPT !.events = @ + 1]

ToolResults == {"done"}

NextTools ==
  \/ ToolCallMessage
  \/ \E t \in toolTasks : \E r \in ToolResults : ToolReturns(t, r)
  \/ \E t \in toolTasks : ToolThrows(t)
  \/ OnClose(session)
  \/ ClientCloseEvent
  \/ \E i \in 1..Len(cleanups) : CleanupAfterWrite(i)

SpecTools == InitTools /\ [][NextTools]_vars

\* ------------------- model turns of an ACTIVE session during tool calls
InitMixed == ActiveState(FALSE)

MixedTurns == {<<480>>, <<1200, 960>>}

MixedAudioTurn ==
  \E bs \in MixedTurns :
    /\ n.parts + Len(bs) <= MaxAudioParts
    /\ OnMessage(session, TurnMsg(AudioParts(bs, inputPos)))
    /\ n' = [n EXCEPT !.parts = @ + Len(bs)]

MixedToolCall ==
  /\ n.events < MaxToolMsgs
  /\ OnMessage(session, ToolMsg(<<[id |-> 1, name |-> "get_transcript"],
                                  [id |-> 2, name |-> "avr_hangup"]>>))
  /\ n' = [n EXCEPT !.events = @ + 1]

NextMixed ==
  \/ MixedAudioTurn
  \/ MixedToolCall
  \/ \E t \in toolTasks : \E r \in ToolResults : ToolReturns(t, r)
  \/ \E t \in toolTasks : ToolThrows(t)

SpecMixed == InitMixed /\ [][NextMixed]_vars

\* ------------------- what one connection sends to its upstream session
\* the audio payloads of the client: none, two samples, one sample
UplinkPayloads == ClientPayloads \cup {[length |-> 2, samples |-> <<9>>]}

UplinkInit ==
  /\ sessionUuid = "null"
  /\ \E u \in Uuids : ClientInit(u)
  /\ UNCHANGED n

UplinkAudio ==
  \E buf \in UplinkPayloads :
    /\ n.events < MaxUplinkEvents
    /\ ClientAudio(buf)
    /\ n' = [n EXCEPT !.events = @ + 1]

UplinkToolCall ==
  \E s \in DOMAIN upstream :
    /\ n.events < MaxUplinkEvents
    /\ OnMessage(s, ToolMsg(<<[id |-> 1, name |-> "get_transcript"]>>))
    /\ n' = [n EXCEPT !.events = @ + 1]

NextUplink ==
  \/ UplinkInit
  \/ ConnectSucceeds
  \/ UplinkAudio
  \/ UplinkToolCall
  \/ \E t \in toolTasks : \E r \in ToolResults : ToolReturns(t, r)
  \/ \E s \in DOMAIN upstream : OnClose(s)
  \/ ClientCloseEvent
  \/ \E i \in 1..Len(cleanups) : CleanupAfterWrite(i)

SpecUplink == Init /\ [][NextUplink]_vars

\* ------------------------------ the transcript of an ACTIVE session
InitTranscript == ActiveState(FALSE)

AsrTexts == {"hi", "ok"}

\* a model turn with two text parts, and one that also carries recognized text
TextTurn == TurnMsg(<<TextPart("hello"), TextPart("bye")>>)
TextTurns == {TextTurn, [TextTurn EXCEPT !.text = "hi"]}

TranscriptAsr ==
  \E t \in AsrTexts :
    /\ n.events < MaxTranscriptEvents
    /\ OnMessage(session, AsrMsg(t))
    /\ n' = [n EXCEPT !.events = @ + 1]

TranscriptTurn ==
  \E m \in TextTurns :
    /\ n.events < MaxTranscriptEvents
    /\ OnMessage(session, m)
    /\ n' = [n EXCEPT !.events = @ + 1]

TranscriptInit ==
  \E u \in Uuids :
    /\ n.events < MaxTranscriptEvents
    /\ ClientInit(u)
    /\ n' = [n EXCEPT !.events = @ + 1]

NextTranscript ==
  \/ TranscriptAsr
  \/ TranscriptTurn
  \/ TranscriptInit
  \/ ConnectSucceeds
  \/ ClientCloseEvent
  \/ \E i \in 1..Len(cleanups) : CleanupAfterWrite(i)

SpecTranscript == InitTranscript /\ [][NextTranscript]_vars

\* ------------------------------------ two connections of one process
\* the variables of the first connection's closure and of its sockets
OwnState ==
  <<sessionUuid, session, audioBuffer8k, audioFrames, clientWs, clientOut, clientEvents,
    upstream, connecting, toolTasks, toolLog, cleanups, rejections, inputPos, cutPos,
    converted, lastParts, saveAudioChunks>>

\* an audio part of the second connection's upstream session; its samples
\* are numbered by stream position with a negative sign
PeerPart(bytes, pos) ==
  [inlineData |-> [length |-> bytes,
                   samples |-> [i \in 1..(bytes \div BytesPerSample) |-> 0 - (pos + i)]],
   text |-> ""]

\* case "init" on the second connection
PeerInit(u) ==
  /\ peer.clientWs # "CLOSED"
  /\ peer' = [peer EXCEPT !.sessionUuid = u, !.connecting = @ + 1]
  /\ transcripts' = With(transcripts, u, <<>>)
  /\ UNCHANGED <<OwnState, downsampler, audioFileHandles, fileHandles, transcriptFiles,
                 saves>>

\* connectToGeminiSdk of the second connection resolved
PeerConnectSucceeds ==
  /\ peer.connecting > 0
  /\ peer' = [peer EXCEPT !.connecting = @ - 1, !.session = 1,
                          !.sent = Append(@, Nudge)]
  /\ UNCHANGED <<OwnState, downsampler, transcripts, audioFileHandles, fileHandles,
                 transcriptFiles, saves, n>>

\* callbacks.onmessage(m) of the second connection's upstream session, for
\* messages without tool calls
PeerOnMessage(m) ==
  /\ peer.session # 0
  /\ ~m.setupComplete /\ ~m.toolCall
  /\ LET tr1 == IF m.text # ""
                THEN PushTranscript(transcripts, peer.sessionUuid, "User", m.text)
                ELSE transcripts
         st == HandleParts([acc |-> peer.audioBuffer8k, ds |-> downsampler,
                            frames |-> peer.audioFrames, out |-> peer.clientOut,
                            tr |-> tr1, saves |-> saves, conv |-> <<>>, log |-> <<>>],
                           m.parts, peer.sessionUuid, peer.clientWs)
     IN  IF m.modelTurn
         THEN /\ peer' = [peer EXCEPT !.audioBuffer8k = st.acc, !.audioFrames = st.frames,
                                      !.clientOut = st.out,
                                      !.inputPos = @ + SamplesIn(m.parts)]
              /\ downsampler' = st.ds
              /\ transcripts' = st.tr
              /\ saves' = st.saves
         ELSE /\ peer' = IF m.interrupted
                         THEN [peer EXCEPT !.audioFrames = <<>>,
                                           !.clientOut = ClientSend(peer.clientWs, @,
                                                                    [type |-> "interruption"])]
                         ELSE peer
              /\ transcripts' = tr1
              /\ UNCHANGED <<downsampler, saves>>
  /\ UNCHANGED <<OwnState, audioFileHandles, fileHandles, transcriptFiles>>

\* clientWs.on("close") of the second connection: cleanup() up to its first await
PeerCloseEvent ==
  /\ peer.clientWs # "CLOSED"
  /\ LET c == CleanupUser(CleanupState, peer.sessionUuid)
     IN  /\ peer' = [peer EXCEPT !.clientWs = "CLOSED",
                                 !.closeCalls = IF peer.session # 0 THEN @ + 1 ELSE @,
                                 !.cleanups = @ \o c.task]
         /\ fileHandles' = c.fh
         /\ audioFileHandles' = c.afh
         /\ transcripts' = c.tr
         /\ transcriptFiles' = c.tf
  /\ UNCHANGED <<OwnState, downsampler, saves, n>>

\* the fs.writeFile awaited by the second connection's cleanup settles
PeerCleanupAfterWrite(i) ==
  /\ i \in 1..Len(peer.cleanups)
  /\ peer.cleanups[i].pc = "write"
  /\ transcripts' = Without(transcripts, peer.sessionUuid)
  /\ peer' = [peer EXCEPT !.cleanups = RemoveAt(@, i)]
  /\ UNCHANGED <<OwnState, downsampler, audioFileHandles, fileHandles, transcriptFiles,
                 saves, n>>

\* the first connection is ACTIVE, the second has just connected
InitShared == ActiveState(FALSE)

OwnMsgs == {AsrMsg("hi"), InterruptedMsg, TurnMsg(<<AudioPart(960, inputPos)>>)}

PeerMsgs ==
  {AsrMsg("yo"), InterruptedMsg, TurnMsg(<<PeerPart(3, peer.inputPos)>>),
   TurnMsg(<<PeerPart(960, peer.inputPos), TextPart("hello")>>)}

SharedOwnMessage ==
  \E m \in OwnMsgs :
    /\ n.events < MaxSharedEvents
    /\ OnMessage(session, m)
    /\ n' = [n EXCEPT !.events = @ + 1]

SharedPeerInit ==
  \E u \in Uuids :
    /\ n.events < MaxSharedEvents
    /\ PeerInit(u)
    /\ n' = [n EXCEPT !.events = @ + 1]

SharedPeerMessage ==
  \E m \in PeerMsgs :
    /\ n.events < MaxSharedEvents
    /\ PeerOnMessage(m)
    /\ n' = [n EXCEPT !.events = @ + 1]

NextShared ==
  \/ SharedOwnMessage
  \/ SharedPeerInit
  \/ PeerConnectSucceeds
  \/ SharedPeerMessage
  \/ PeerCloseEvent
  \/ \E i \in 1..Len(peer.cleanups) : PeerCleanupAfterWrite(i)

SpecShared == InitShared /\ [][NextShared]_vars

\* ------------------------- upstream messages carrying several fields
InitChain == ActiveState(FALSE)

\* messages with the interrupted flag alone and together with recognized
\* text, model-turn parts or a tool-call batch, and the same without the flag
ChainMsgs ==
  LET turn == TurnMsg(<<AudioPart(960, inputPos), TextPart("hello")>>)
      tool == ToolMsg(<<[id |-> 1, name |-> "get_transcript"]>>)
  IN  {InterruptedMsg, [AsrMsg("hi") EXCEPT !.interrupted = TRUE],
       [turn EXCEPT !.interrupted = TRUE], [tool EXCEPT !.interrupted = TRUE],
       turn, tool}

ChainMessage ==
  \E m \in ChainMsgs :
    /\ n.events < MaxChainMsgs
    /\ OnMessage(session, m)
    /\ n' = [n EXCEPT !.events = @ + 1,
                      !.interrupts = IF m.interrupted THEN @ + 1 ELSE @]

NextChain ==
  \/ ChainMessage
  \/ \E t \in toolTasks : \E r \in ToolResults : ToolReturns(t, r)

SpecChain == InitChain /\ [][NextChain]_vars

\* ------------------------------- an ACTIVE session with SAVE_AUDIO_CHUNKS
InitSave == ActiveState(TRUE)

SavedClientAudio ==
  /\ n.events < MaxSaveEvents
  /\ ClientAudio([length |-> 4, samples |-> <<5, -7>>])
  /\ n' = [n EXCEPT !.events = @ + 1]

SavedAudioTurn ==
  /\ n.events < MaxSaveEvents
  /\ OnMessage(session, TurnMsg(<<AudioPart(960, inputPos)>>))
  /\ n' = [n EXCEPT !.events = @ + 1]

NextSave ==
  \/ SavedClientAudio
  \/ SavedAudioTurn
  \/ \E i \in 1..Len(saves) : SaveStep(i)
  \/ \E i \in 1..Len(saves) : SaveFails(i)
  \/ OnClose(session)
  \/ ClientErrorEvent
  \/ ClientCloseEvent
  \/ \E i \in 1..Len(cleanups) : \E ok \in BOOLEAN : CleanupAfterClose(i, ok)
  \/ \E i \in 1..Len(cleanups) : CleanupAfterWrite(i)

SpecSave == InitSave /\ [][NextSave]_vars

\* ------------------------------------------------ framing pipeline claims
AudioSent == SelectSeq(clientOut, LAMBDA msg : msg.type = "audio")
FramesSent == [i \in 1..Len(AudioSent) |-> AudioSent[i].audio]
Encoded(samples) == [i \in 1..Len(samples) |-> ToInt16(samples[i])]

\* C1: every audio message sent to the client, and every frame returned by
\* processGeminiAudioChunk, holds exactly 160 samples (320 bytes); a partial
\* frame is never sent.
C1_FrameSize ==
  /\ \A i \in 1..Len(FramesSent) :
       /\ Len(FramesSent[i]) = FrameSamples
       /\ FrameByteLength(FramesSent[i]) = FrameBytes
  /\ \A i \in 1..Len(audioFrames) : FrameByteLength(audioFrames[i]) = FrameBytes

\* frames were sent over several parts while a partial frame stayed buffered
C1_Witness ==
  /\ n.parts >= 2
  /\ Len(FramesSent) >= 2
  /\ Len(audioBuffer8k) > 0

\* C2: without an interruption, the frames sent so far followed by the
\* accumulator are the converted samples of all parts in arrival order (as
\* 16-bit samples), and the accumulator holds fewer than 160 samples after
\* each part.
C2_FifoNoLoss ==
  /\ Len(audioBuffer8k) < FrameSamples
  /\ n.interrupts = 0 =>
       Flatten(FramesSent) \o Encoded(audioBuffer8k) = Encoded(converted)

C2_Witness ==
  /\ n.interrupts = 0
  /\ n.parts >= 3
  /\ Len(FramesSent) >= 3
  /\ Len(audioBuffer8k) > 0

\* C3: two consecutive parts that are both whole-sample buffers yield, fed one
\* after the other, the frames that their concatenation yields when fed as one
\* buffer from the same accumulator and converter state.
C3_SplitEquivalence ==
  (/\ Len(lastParts) = 2
   /\ lastParts[1].bytes % BytesPerSample = 0
   /\ lastParts[2].bytes % BytesPerSample = 0)
  => LET a == lastParts[1]
         b == lastParts[2]
         first == IF a.bytes > 0 THEN a.first ELSE b.first
         whole == [length |-> a.bytes + b.bytes,
                   samples |-> [i \in 1..((a.bytes + b.bytes) \div BytesPerSample) |->
                                  first + i - 1]]
     IN  ProcessGeminiAudioChunk(a.acc, a.state, whole).frames = a.frames \o b.frames

\* a split that is aligned neither with a frame nor with the converter's
\* 3:1 step, the second sub-chunk completing a frame
C3_Witness ==
  /\ Len(lastParts) = 2
  /\ lastParts[1].bytes = 2000
  /\ lastParts[1].acc # <<>>
  /\ lastParts[2].bytes = 1200
  /\ lastParts[2].frames # <<>>

\* C4: every frame sent after the last interruption message holds only
\* samples of audio received after that interruption was handled.
LastInterruption ==
  LET at == {i \in 1..Len(clientOut) : clientOut[i].type = "interruption"}
  IN  IF at = {} THEN 0 ELSE CHOOSE i \in at : \A j \in at : j <= i

C4_NoStaleAudioAfterInterruption ==
  LastInterruption > 0 =>
    \A j \in (LastInterruption + 1)..Len(clientOut) :
      clientOut[j].type = "audio" =>
        \A k \in 1..Len(clientOut[j].audio) : clientOut[j].audio[k] > cutPos

\* ----------------------------------------------------- tool-call claims
Finished(k) == toolLog[k].outcome # "running"

\* the tool-response batches the upstream sessions received, in order
BatchesSent ==
  Flatten([s \in 1..Len(upstream) |->
             SelectSeq(upstream[s].sent, LAMBDA item : item.kind = "toolResponse")])

\* C5: a handled tool-call message with K calls got exactly K responses, the
\* i-th with the id and name of the i-th call, a call whose name resolves
\* to no handler getting the fallback text.
C5_ToolCallCompleteness ==
  \A k \in 1..Len(toolLog) :
    Finished(k) =>
      /\ Len(toolLog[k].batches) = 1
      /\ Len(toolLog[k].batches[1]) = Len(toolLog[k].calls)
      /\ \A i \in 1..Len(toolLog[k].calls) :
           /\ toolLog[k].batches[1][i].id = toolLog[k].calls[i].id
           /\ toolLog[k].batches[1][i].name = toolLog[k].calls[i].name
           /\ toolLog[k].calls[i].name \notin ToolFiles
                => toolLog[k].batches[1][i].result = Fallback

\* C6: a rejecting tool handler never makes the message handler reject: the
\* batch is still sent, with an apology for that call and the responses of
\* the other calls.
C6_HandlerFailureContained ==
  \A k \in 1..Len(toolLog) :
    toolLog[k].threw # {} =>
      /\ toolLog[k].outcome # "rejected"
      /\ toolLog[k].outcome = "sent" =>
           /\ Len(toolLog[k].batches[1]) = Len(toolLog[k].calls)
           /\ \A i \in toolLog[k].threw : toolLog[k].batches[1][i].result = Fallback

\* C7: each tool-call message leads to exactly one sendToolResponse, made
\* only after every call was awaited, with the responses in call order.
C7_SingleOrderedBatch ==
  /\ Len(BatchesSent) = Cardinality({k \in 1..Len(toolLog) : Finished(k)})
  /\ \A k \in 1..Len(toolLog) :
       IF Finished(k)
       THEN /\ Len(toolLog[k].batches) = 1
            /\ [i \in 1..Len(toolLog[k].batches[1]) |-> toolLog[k].batches[1][i].id]
                 = [i \in 1..Len(toolLog[k].calls) |-> toolLog[k].calls[i].id]
       ELSE toolLog[k].batches = <<>>

\* ------------------------------------------------------ lifecycle claims
ErrorsSent == SelectSeq(clientOut, LAMBDA msg : msg.type = "error")

\* C8: once the only upstream open has failed and its handler has finished,
\* the client has received exactly one error, the client connection is
\* closed, the transcript of the session is released, and no upstream
\* session was ever assigned.
C8_OpenFailureClosesSession ==
  (n.openFailed = 1 /\ n.events = 1 /\ clientEvents.close = 0 /\ clientEvents.error = 0)
  => /\ Len(ErrorsSent) = 1
     /\ session = 0
     /\ upstream = <<>>
     /\ clientWs # "OPEN"
     /\ sessionUuid \notin DOMAIN transcripts

UpstreamFailed == \E s \in DOMAIN upstream : upstream[s].errors > 0
ErrorCount == Len(SelectSeq(upstream, LAMBDA u : u.errors > 0))

TeardownComplete ==
  /\ clientWs = "CLOSED"
  /\ cleanups = <<>>
  /\ saves = <<>>
  /\ rejections = 0

C10_ReleasedExactlyOnce ==
  /\ \A s \in DOMAIN upstream : upstream[s].closeCalls <= 1
  /\ \A h \in DOMAIN fileHandles : fileHandles[h].closeCalls <= 1
  /\ \A u \in Uuids : transcriptFiles[u] <= 1
  /\ TeardownComplete =>
       /\ DOMAIN audioFileHandles = {}
       /\ \A h \in DOMAIN fileHandles : ~fileHandles[h].open
       /\ sessionUuid \notin DOMAIN transcripts
       /\ \A s \in DOMAIN upstream : upstream[s].closeCalls = 1
       /\ \A u \in Uuids : transcriptFiles[u] = 1

\* ------------------------------------------- disconnect and close claims
OpenSessions == {s \in DOMAIN upstream : upstream[s].state = "open"}

\* C11: once the client has disconnected, teardown has run to its end and no
\* upstream open is pending any more, every upstream session opened for the
\* connection has been closed or asked to close; none is left open.
C11_UpstreamTornDown ==
  (clientWs = "CLOSED" /\ cleanups = <<>> /\ connecting = 0) => OpenSessions = {}

\* C12: while the client socket is closing or closed, or an upstream session
\* of the connection has been closed or asked to close, no step sends a
\* message to the client.
C12_NoSendAfterClose ==
  [][(clientWs # "OPEN" \/ \E s \in DOMAIN upstream : upstream[s].state # "open")
       => clientOut' = clientOut]_vars

\* an upstream audio part was handled only after the client socket had
\* closed: its frame was extracted but never reached the client
C12_Witness ==
  /\ clientWs = "CLOSED"
  /\ clientEvents.close = 1
  /\ inputPos > 0
  /\ audioFrames # <<>>
  /\ clientOut = <<>>

\* C13: a connection never has more than one upstream session open or being
\* opened, whatever messages the client sent.
C13_SingleUpstreamSession == Cardinality(OpenSessions) + connecting <= 1

\* --------------------------------------------------- frame order claim
\* C14: the samples of the frames sent to the client are in the order in
\* which they arrived from upstream (their stream positions increase), and
\* together with the accumulator they are the whole converted stream, also
\* while earlier onmessage invocations are suspended at a tool handler.
C14_FrameOrderIsArrivalOrder ==
  LET flat == Flatten(FramesSent)
  IN  /\ \A i \in 1..(Len(flat) - 1) : flat[i] < flat[i + 1]
      /\ flat \o Encoded(audioBuffer8k) = Encoded(converted)

\* two audio parts were handled and their frames sent while a tool-call
\* message was suspended, which then went on to send its batch
C14_Witness ==
  /\ Len(lastParts) = 2
  /\ lastParts[1].pending > 0
  /\ lastParts[2].pending > 0
  /\ lastParts[1].frames # <<>>
  /\ lastParts[2].frames # <<>>
  /\ Len(FramesSent) >= 2
  /\ \E k \in 1..Len(toolLog) : toolLog[k].outcome = "sent"

\* ------------------------------------------------ client message claims
\* everything the handlers of the connection can read or write
ProgramState ==
  <<sessionUuid, session, audioBuffer8k, audioFrames, downsampler, transcripts,
    audioFileHandles, fileHandles, transcriptFiles, clientWs, clientOut, upstream,
    connecting, toolTasks, cleanups, saves, rejections>>

C16_UnknownMessageDropped ==
  /\ [][ClientOther => UNCHANGED ProgramState]_vars
  /\ []((/\ n.other = 1
         /\ clientEvents = [error |-> 0, close |-> 0]
         /\ \A s \in DOMAIN upstream : upstream[s].state = "open")
        => clientWs = "OPEN")

\* beside a dropped message, an init was processed normally: the session is
\* assigned, nudged and its transcript registered
C16_Witness ==
  /\ n.other = 1
  /\ n.events = 2
  /\ session = 1
  /\ upstream[1].sent = <<Nudge>>
  /\ sessionUuid \in DOMAIN transcripts
  /\ clientOut = <<>>
  /\ clientWs = "OPEN"

\* ------------------------------------------------ worked example claim
LastPart == lastParts[Len(lastParts)]

\* C17: an audio part of 1200 bytes handled on an empty accumulator (the
\* converter holding no unconsumed input) is converted to 200 samples, sends
\* exactly one frame of 160 samples (320 bytes) and leaves 40 samples in the
\* accumulator.
C17_Part1200Bytes ==
  (/\ lastParts # <<>>
   /\ LastPart.bytes = 1200
   /\ LastPart.acc = <<>>
   /\ LastPart.state = <<>>)
  => LET r == ProcessGeminiAudioChunk(<<>>, <<>>,
                                       AudioPart(1200, LastPart.first - 1).inlineData)
     IN  /\ Len(r.converted) = 200
         /\ r.frames = LastPart.frames
         /\ Len(LastPart.frames) = 1
         /\ FrameByteLength(LastPart.frames[1]) = 320
         /\ clientOut # <<>>
         /\ clientOut[Len(clientOut)] = [type |-> "audio", audio |-> LastPart.frames[1]]
         /\ Len(audioBuffer8k) = 40
         /\ audioBuffer8k = r.acc

\* the first part of the session is the 1200-byte part
C17_Witness ==
  /\ n.parts = 1
  /\ n.interrupts = 0
  /\ Len(lastParts) = 1
  /\ LastPart.bytes = 1200
  /\ LastPart.acc = <<>>
  /\ Len(FramesSent) = 1
  /\ Len(audioBuffer8k) = 40

\* ------------------------------------------------------ teardown claims
\* C18: no cleanup invocation rejects, and once the client socket is closed
\* and no cleanup invocation is pending, the transcript entry of the session
\* is gone and no handle that cleanup closed is still registered, whether or
\* not a close or a write failed on the way.
C18_PersistenceFailureContained ==
  /\ rejections = 0
  /\ (clientWs = "CLOSED" /\ cleanups = <<>>) =>
       /\ sessionUuid \notin DOMAIN transcripts
       /\ \A key \in DOMAIN audioFileHandles :
            fileHandles[audioFileHandles[key]].closeCalls = 0

UpstreamClosed == \E s \in DOMAIN upstream : upstream[s].state = "closed"

\* C19: once an upstream session has emitted its close event the client
\* socket is no longer open, and eventually it is closed, teardown has run to
\* its end, and the transcript of the session has been written and removed.
C19_UpstreamCloseEndsSession ==
  /\ [](UpstreamClosed => clientWs # "OPEN")
  /\ UpstreamClosed ~> (/\ clientWs = "CLOSED"
                        /\ cleanups = <<>>
                        /\ sessionUuid \notin DOMAIN transcripts
                        /\ \E u \in Uuids : u = sessionUuid /\ transcriptFiles[u] >= 1)

\* the upstream session closed on its own (no error, no client event, no
\* teardown yet) and onclose has put the open client socket into CLOSING
C19_Witness ==
  /\ UpstreamClosed
  /\ ~UpstreamFailed
  /\ clientEvents = [error |-> 0, close |-> 0]
  /\ n.cleanupCalls = 0
  /\ clientWs = "CLOSING"
  /\ sessionUuid \in DOMAIN transcripts

\* ---------------------------------------------------- interruption claim
InterruptionsSent == SelectSeq(clientOut, LAMBDA msg : msg.type = "interruption")

\* C20: each interruption signal sends exactly one interruption message, and
\* right after it was handled (no audio part handled since) the accumulator
\* and the frame queue are empty.
C20_InterruptionClearsBuffers ==
  /\ Len(InterruptionsSent) = n.interrupts
  /\ (n.interrupts > 0 /\ lastParts = <<>>) =>
       /\ audioBuffer8k = <<>>
       /\ audioFrames = <<>>

\* ---------------------------------------------------- short chunk claim
\* the converted samples of the last audio part
LastConverted ==
  DownsamplerFull(LastPart.state,
                  Int16View(AudioPart(LastPart.bytes, LastPart.first - 1).inlineData)).out

\* C21 as stated: an audio part that converts to fewer than 160 samples
\* sends no frame, whatever the accumulator held, and a zero-length part
\* leaves the accumulator unchanged.
C21_ShortChunkSendsNothing ==
  lastParts # <<>> =>
    /\ Len(LastConverted) < FrameSamples => LastPart.frames = <<>>
    /\ LastPart.bytes = 0 => audioBuffer8k = LastPart.acc

\* C21 amended: an audio part that converts to fewer than 160 samples sends
\* no frame while the accumulator and the part together hold fewer than 160
\* samples, and exactly one frame (completed by the part) otherwise; a
\* zero-length part sends nothing and leaves the accumulator unchanged.
C21_ShortChunkCompletesAtMostOneFrame ==
  lastParts # <<>> =>
    /\ Len(LastConverted) < FrameSamples =>
         /\ Len(LastPart.frames) =
              (IF Len(LastPart.acc) + Len(LastConverted) < FrameSamples THEN 0 ELSE 1)
         /\ Len(audioBuffer8k) =
              Len(LastPart.acc) + Len(LastConverted) - FrameSamples * Len(LastPart.frames)
    /\ LastPart.bytes = 0 => (audioBuffer8k = LastPart.acc /\ LastPart.frames = <<>>)

\* a part of 80 converted samples arrived on an accumulator holding 80
\* samples and completed a frame
C21_Witness ==
  /\ lastParts # <<>>
  /\ LastPart.bytes = 480
  /\ Len(LastConverted) = 80
  /\ Len(LastPart.acc) = 80
  /\ Len(LastPart.frames) = 1
  /\ audioBuffer8k = <<>>

\* ------------------------------------------------------- uplink claims

\* C22: while a session is assigned, handling a client audio message with a
\* non-empty payload appends exactly one audio push to what was sent on that
\* session, holding the samples of that message only (each 8 kHz sample
\* twice, none kept back), so the pushes are in the order of the messages.
C22_OnePushPerAudioMessage ==
  [][\A buf \in UplinkPayloads :
       (session # 0 /\ buf.length > 0 /\ ClientAudio(buf)) =>
         /\ Len(upstream'[session].sent) = Len(upstream[session].sent) + 1
         /\ SubSeq(upstream'[session].sent, 1, Len(upstream[session].sent))
              = upstream[session].sent
         /\ LET push == upstream'[session].sent[Len(upstream'[session].sent)]
            IN  /\ push.kind = "audio"
                /\ Len(push.data) = (RateUpstream \div RateClient) * (buf.length \div BytesPerSample)
                /\ push.data = Convert8kTo16k(buf)
         /\ \A s \in DOMAIN upstream : s # session => upstream'[s] = upstream[s]]_vars

\* two client audio messages were pushed one by one, in their order
C22_Witness ==
  /\ session = 1
  /\ Len(upstream[1].sent) = 3
  /\ upstream[1].sent[2].kind = "audio"
  /\ upstream[1].sent[2].data = <<5, 5, -7, -7>>
  /\ upstream[1].sent[3].kind = "audio"
  /\ upstream[1].sent[3].data = <<9, 9>>

\* C23: on every upstream session that was opened, the first thing sent is
\* the nudge, and it is the only text sent on it.
C23_NudgeFirstAndOnce ==
  \A s \in DOMAIN upstream :
    /\ upstream[s].sent # <<>>
    /\ upstream[s].sent[1] = Nudge
    /\ Len(SelectSeq(upstream[s].sent, LAMBDA item : item.kind = "text")) = 1

\* after the nudge, a client audio push and a tool-response batch followed
C23_Witness ==
  /\ session = 1
  /\ Len(upstream[1].sent) = 3
  /\ upstream[1].sent[1] = Nudge
  /\ \E i \in 2..3 : upstream[1].sent[i].kind = "audio"
  /\ \E i \in 2..3 : upstream[1].sent[i].kind = "toolResponse"

\* C26: nothing is sent on an upstream session after it was closed or asked
\* to close: no audio push, no tool-response batch, no nudge.
C26_NoSendOnClosedSession ==
  \A s \in DOMAIN upstream :
    \A i \in 1..Len(upstream[s].sent) : ~upstream[s].sent[i].late

\* ---------------------------------------------------- transcript claim
Entry(speaker, text) == [speaker |-> speaker, text |-> text]

\* C24: between init and teardown every step keeps the transcript entries it
\* found, in their order; a recognized-text message appends exactly one User
\* entry and each text part of a model turn exactly one AI entry.
C24_TranscriptAppendOnly ==
  [][(sessionUuid \in DOMAIN transcripts /\ n.cleanupCalls = 0 /\ n'.cleanupCalls = 0) =>
       LET old == transcripts[sessionUuid]
       IN  /\ sessionUuid \in DOMAIN transcripts'
           /\ Len(transcripts'[sessionUuid]) >= Len(old)
           /\ SubSeq(transcripts'[sessionUuid], 1, Len(old)) = old
           /\ \A t \in AsrTexts :
                OnMessage(session, AsrMsg(t)) =>
                  transcripts'[sessionUuid] = Append(old, Entry("User", t))
           /\ OnMessage(session, TextTurn) =>
                transcripts'[sessionUuid] = old \o <<Entry("AI", "hello"), Entry("AI", "bye")>>]_vars

\* ------------------------------------------------ two-connection claims
PeerFrames ==
  LET audio == SelectSeq(peer.clientOut, LAMBDA msg : msg.type = "audio")
  IN  Flatten([i \in 1..Len(audio) |-> audio[i].audio])

\* the converted stream of the first connection's own audio parts alone
OwnStreamAlone == DownsamplerFull(<<>>, [i \in 1..inputPos |-> i]).out

\* C25: a step of one connection leaves the accumulator of the other
\* unchanged, every frame sample sent to a client comes from its own
\* upstream session, and the frames sent to the first client (with its
\* accumulator) are what its own audio parts alone give.
C25_AccumulatorPrivate ==
  /\ [][peer' # peer => UNCHANGED <<audioBuffer8k, audioFrames>>]_vars
  /\ [][(inputPos' # inputPos \/ clientOut' # clientOut)
          => peer'.audioBuffer8k = peer.audioBuffer8k]_vars
  /\ [](/\ \A i \in 1..Len(Flatten(FramesSent)) : Flatten(FramesSent)[i] > 0
        /\ \A i \in 1..Len(PeerFrames) : PeerFrames[i] < 0
        /\ Flatten(FramesSent) \o Encoded(audioBuffer8k) = Encoded(OwnStreamAlone))

\* C27: while the first session is live (no client event yet), a step of
\* the second connection keeps the first session's transcript registered
\* with all its entries, and keeps its audio file handles registered and
\* not closed.
C27_OnlyOwnEventsTouchSession ==
  [][(/\ peer' # peer
      /\ sessionUuid \in DOMAIN transcripts
      /\ clientEvents = [error |-> 0, close |-> 0])
     => /\ sessionUuid \in DOMAIN transcripts'
        /\ Len(transcripts'[sessionUuid]) >= Len(transcripts[sessionUuid])
        /\ SubSeq(transcripts'[sessionUuid], 1, Len(transcripts[sessionUuid]))
             = transcripts[sessionUuid]
        /\ \A key \in DOMAIN audioFileHandles :
             key[1] = sessionUuid =>
               /\ key \in DOMAIN audioFileHandles'
               /\ fileHandles'[audioFileHandles[key]] = fileHandles[audioFileHandles[key]]]_vars

\* ------------------------------------------------- message chain claim
\* C28: the client has received one interruption message for every upstream
\* message handled that carried the interrupted flag, whatever else the
\* message carried.
C28_InterruptedAlwaysForwarded ==
  clientWs = "OPEN" => Len(InterruptionsSent) = n.interrupts

\* ------------------------------------------- overlapping saves claim
OpenHandles(key) ==
  {h \in 1..Len(fileHandles) : fileHandles[h].key = key /\ fileHandles[h].open}

\* C29: for each (session, speaker) key at most one audio file handle is
\* open at a time, and an open handle is the one registered under its key,
\* so teardown closes every handle that was opened.
C29_OneHandlePerKey ==
  \A h \in 1..Len(fileHandles) :
    fileHandles[h].open =>
      /\ Cardinality(OpenHandles(fileHandles[h].key)) <= 1
      /\ fileHandles[h].key \in DOMAIN audioFileHandles
      /\ audioFileHandles[fileHandles[h].key] = h

====
